---- MODULE Spec2Model ----
(***************************************************************************)
(* Vehicle event generator (vehicle_generator): the motion model of        *)
(* models.py (Route, Vehicle) and the feed loop / dispatch pipeline of     *)
(* generator.py (VehicleEventGenerator).                                   *)
(*                                                                         *)
(* Numbers.  Python floats are modelled by integers:                       *)
(*  - a waypoint is a pair <<lat, lon>> on an integer grid whose step is   *)
(*    one kilometre; route segments are parallel to an axis, so that the   *)
(*    great-circle length of a segment is the coordinate difference;       *)
(*  - progress_to_next_waypoint is a fixed-point number: the integer p     *)
(*    stands for the float p / ProgressScale;                              *)
(*  - an interpolated position is a pair of fixed-point numbers with the   *)
(*    same scale.                                                          *)
(* Python sequences are 0-based, TLA+ sequences 1-based: waypoint index i  *)
(* of the code is element i + 1 of the sequence (see WP).                  *)
(***************************************************************************)
EXTENDS Integers, Sequences, FiniteSets, TLC

\* ------------------------------------------------------------------ bounds
\* Longitudes of the waypoint grid are 0..GridLon (latitudes are 0..1).
GridLon == 2
\* Longest route (number of waypoints) of the motion model's catalogue.
MaxWaypoints == 4

\* Largest fleet (num_vehicles) of a feed.
MaxVehicles == 5
\* Ticks of the feed loop that are explored (cap on batch_count).
MaxTicks == 2
\* Largest capacity, in events, of one sink batch (EventDataBatch).
MaxBatchEvents == 2
\* Seeds of the random generator used by setup_vehicles are 0..MaxSeed.
MaxSeed == 1
\* Vehicles of the feed whose runs are followed to their end.
MaxSmallFleet == 3
\* Largest num_vehicles of a setup_vehicles call taken on its own.
MaxSetupVehicles == 12
\* The three ceilings of the dispatch pipeline.  The code's values are
\* batch_size = 100 (generator.py:251), asyncio.Semaphore(10)
\* (generator.py:255) and asyncio.Semaphore(100) (generator.py:235); the model
\* is parametric in them and explored with small values, so that fleets of
\* up to MaxVehicles vehicles fill several chunks and saturate both gates.
batch_size == 2
SubmitCeiling == 2
EncodeCeiling == 2

\* Resolution of the fixed-point progress: p stands for p / ProgressScale.
ProgressScale == 12

\* random.uniform(20.0, 40.0): the speeds drawn by setup_vehicles, km/h.
Speeds == {20, 40}
\* time_step_seconds arguments of advance (seconds); 0 is the empty step.
TimeSteps == {0, 90, 360}

\* poll_interval arguments of run_feed (seconds).
PollIntervals == {90, 360}
\* agency argument of run_feed (an opaque label).
Agency == "demo-transit"

VARIABLES
    vehicles,   \* self.vehicles: the fleet, a sequence of Vehicle records
    last_dt,    \* {time_step_seconds} of the latest advance call, {} before any
    \* run_feed
    pc,                 \* where run_feed is: "idle", "loop", "encode", "submit",
                        \* "dispatched", "sleep", "stopped" (run_feed has
                        \* ended), "exited" (the process has ended)
    running,            \* self.running
    num_vehicles,       \* argument of run_feed
    route_tag,          \* argument of run_feed ("None" for None)
    poll_interval,      \* argument of run_feed
    total_events_sent,  \* run_feed's cumulative counter
    batch_count,        \* run_feed's tick counter
    clock,              \* the wall clock read by datetime.now
    \* send_vehicle_events and the two gather calls of one tick
    time_iso,           \* the tick's shared timestamp
    enc,                \* the encode tasks (create_event_with_semaphore)
    encSem,             \* value of the Semaphore of _create_all_events_optimized
    events_to_send,     \* result of the encode gather
    event_batches,      \* the chunks of _send_events_parallel_batches
    task,               \* the submit tasks (send_batch_with_semaphore)
    subSem,             \* value of the Semaphore of _send_events_parallel_batches
    tick_total,         \* total_events_sent of send_vehicle_events
    \* the sink (Event Hubs producer client)
    max_batch_events,   \* events that fit into one EventDataBatch
    sent,               \* batches delivered by send_batch during this tick
    producer,           \* self.producer_client: "open", or "none" after stop()
    \* the end of run_feed and of the feed command
    outcome,            \* how run_feed ended: "none" while it has not,
                        \* "returned", "raised", "cancelled", "interrupted"
    summaries,          \* final performance reports emitted
    exit_status,        \* exit status of the process, -1 while it runs
    \* the feed command
    cli_args            \* the command line and environment of the feed
                        \* command and how far it got; << >> without one

vehicleVars == <<vehicles, last_dt>>
feedVars == <<pc, running, num_vehicles, route_tag, poll_interval,
              total_events_sent, batch_count, clock>>
tickVars == <<time_iso, enc, encSem, events_to_send, event_batches, task,
              subSem, tick_total>>
sinkVars == <<max_batch_events, sent>>
exitVars == <<producer, outcome, summaries, exit_status, cli_args>>

vars == <<vehicleVars, feedVars, tickVars, sinkVars, exitVars>>

\* ----------------------------------------------------------- models.py
Abs(x) == IF x < 0 THEN -x ELSE x

GridPoints == (0..1) \X (0..GridLon)

AxisParallel(p, q) == p[1] = q[1] \/ p[2] = q[2]

\* Route.get_distance_between_points: haversine distance in km.  On the grid
\* (step 1 km, segments parallel to an axis) it is the coordinate difference;
\* it is 0 exactly for identical points and symmetric.
get_distance_between_points(point1, point2) ==
    Abs(point2[1] - point1[1]) + Abs(point2[2] - point1[2])

\* Waypoint i (0-based, as in the code) of a vehicle's route.
WP(v, i) == v.route.waypoints[i + 1]

\* len(self.route.waypoints) - 1
LastIndex(v) == Len(v.route.waypoints) - 1

\* The bearing computed in update_heading: (degrees(atan2(y, x)) + 360) % 360
\* for the segment point1 -> point2.  atan2(0, 0) = 0 for identical points.
Bearing(point1, point2) ==
    LET dlat == point2[1] - point1[1]
        dlon == point2[2] - point1[2]
    IN  CASE dlon = 0 /\ dlat >= 0 -> 0
          [] dlon = 0 /\ dlat < 0  -> 180
          [] dlon > 0 /\ dlat > 0  -> 45
          [] dlon > 0 /\ dlat = 0  -> 90
          [] dlon > 0 /\ dlat < 0  -> 135
          [] dlon < 0 /\ dlat < 0  -> 225
          [] dlon < 0 /\ dlat = 0  -> 270
          [] OTHER                 -> 315

\* Vehicle.update_heading
update_heading(v) ==
    IF v.current_waypoint_index >= LastIndex(v)
    THEN v
    ELSE [v EXCEPT !.heading = Bearing(WP(v, v.current_waypoint_index),
                                       WP(v, v.current_waypoint_index + 1))]

\* Vehicle.get_current_position, as a fixed-point pair (scale ProgressScale).
get_current_position(v) ==
    IF Len(v.route.waypoints) = 0
    THEN <<0, 0>>
    ELSE IF v.current_waypoint_index >= LastIndex(v)
    THEN LET w == v.route.waypoints[Len(v.route.waypoints)]
         IN  <<w[1] * ProgressScale, w[2] * ProgressScale>>
    ELSE LET current_waypoint == WP(v, v.current_waypoint_index)
             next_waypoint == WP(v, v.current_waypoint_index + 1)
             p == v.progress_to_next_waypoint
         IN  <<current_waypoint[1] * ProgressScale
                 + (next_waypoint[1] - current_waypoint[1]) * p,
               current_waypoint[2] * ProgressScale
                 + (next_waypoint[2] - current_waypoint[2]) * p>>

\* progress_increment of advance: distance_km / segment_distance with
\* distance_km = (speed_km_hr / 3600) * time_step_seconds, in fixed point.
progress_increment(v, time_step_seconds, segment_distance) ==
    (v.speed_km_hr * time_step_seconds * ProgressScale)
        \div (3600 * segment_distance)

\* A variant that steps over one waypoint at most: `if` for `while`.
cross_waypoints_once(index, progress, last) ==
    IF progress >= ProgressScale /\ index < last
    THEN IF index + 1 >= last
         THEN <<0, 0>>
         ELSE <<index + 1, progress - ProgressScale>>
    ELSE <<index, progress>>

\* A variant without the loop back to the start of the route.
RECURSIVE cross_waypoints_no_loop(_, _, _)
cross_waypoints_no_loop(index, progress, last) ==
    IF progress >= ProgressScale
    THEN cross_waypoints_no_loop(index + 1, progress - ProgressScale, last)
    ELSE <<index, progress>>

\* A variant whose loop runs only while progress is above 1.0: `>` for `>=`.
RECURSIVE cross_waypoints_strict(_, _, _)
cross_waypoints_strict(index, progress, last) ==
    IF progress > ProgressScale /\ index < last
    THEN IF index + 1 >= last
         THEN <<0, 0>>
         ELSE cross_waypoints_strict(index + 1, progress - ProgressScale,
                                     last)
    ELSE <<index, progress>>

\* The while loop of advance (models.py:156-164): <<index, progress>> after it.
RECURSIVE cross_waypoints(_, _, _)
cross_waypoints(index, progress, last) ==
    IF progress >= ProgressScale /\ index < last
    THEN IF index + 1 >= last
         THEN <<0, 0>>
         ELSE cross_waypoints(index + 1, progress - ProgressScale, last)
    ELSE <<index, progress>>

\* The guard of advance's early return (models.py:134).
at_route_end(v) ==
    Len(v.route.waypoints) = 0 \/ v.current_waypoint_index >= LastIndex(v)

\* Vehicle.advance past the early return.
move(v, time_step_seconds) ==
    LET i == v.current_waypoint_index
        segment_distance ==
            get_distance_between_points(WP(v, i), WP(v, i + 1))
    IN  IF segment_distance = 0
        THEN [v EXCEPT !.current_waypoint_index = i + 1,
                       !.progress_to_next_waypoint = 0]
        ELSE LET p == v.progress_to_next_waypoint
                        + progress_increment(v, time_step_seconds,
                                             segment_distance)
                 r == cross_waypoints(i, p, LastIndex(v))
             IN  update_heading([v EXCEPT !.current_waypoint_index = r[1],
                                          !.progress_to_next_waypoint = r[2]])

\* A variant that restarts the route from a vehicle parked at its end.
advance_restart(v, time_step_seconds) ==
    IF Len(v.route.waypoints) = 0
    THEN v
    ELSE IF v.current_waypoint_index >= LastIndex(v)
    THEN [v EXCEPT !.current_waypoint_index = 0,
                   !.progress_to_next_waypoint = 0]
    ELSE move(v, time_step_seconds)

\* Vehicle.advance
advance(v, time_step_seconds) ==
    IF at_route_end(v) THEN v ELSE move(v, time_step_seconds)

\* ------------------------------------------------- fleet setup (one vehicle)
\* The decimal digits of a natural number, most significant first.
RECURSIVE decimal(_)
decimal(n) == IF n < 10 THEN <<n>> ELSE Append(decimal(n \div 10), n % 10)

\* format(n, "03d"): the digits, padded with zeros to a width of 3.
zero_pad(digits) ==
    IF Len(digits) >= 3 THEN digits
    ELSE IF Len(digits) = 2 THEN <<0>> \o digits
    ELSE <<0, 0>> \o digits
format_03d(n) == zero_pad(decimal(n))

\* f"vehicle-{i+1:03d}" (generator.py:150)
vehicle_id(i) == [prefix |-> "vehicle-", number |-> format_03d(i + 1)]

\* The Vehicle built in the loop body of setup_vehicles (generator.py:141-156)
\* for loop index i on `route`, with the three random draws as arguments.
new_vehicle(i, route, starting_waypoint, starting_progress, speed) ==
    update_heading([id |-> vehicle_id(i),
                    route |-> route,
                    current_waypoint_index |-> starting_waypoint,
                    progress_to_next_waypoint |-> starting_progress,
                    speed_km_hr |-> speed,
                    heading |-> 0])

\* random.randint(0, max(0, len(route.waypoints) - 2))
StartingWaypoints(route) ==
    0..(IF Len(route.waypoints) - 2 > 0 THEN Len(route.waypoints) - 2 ELSE 0)

\* random.uniform(0.0, 1.0) on the fixed-point grid: [0, 1)
StartingProgress == 0..(ProgressScale - 1)

\* ------------------------------------------------ motion model, one vehicle
\* Routes of the motion model: every waypoint sequence of up to MaxWaypoints
\* grid points with axis-parallel (possibly zero-length) segments.
WaypointLists ==
    UNION {{w \in [1..n -> GridPoints] :
                \A k \in 1..(n - 1) : AxisParallel(w[k], w[k + 1])}
           : n \in 0..MaxWaypoints}

RouteCatalogue == {[tag |-> "r", waypoints |-> w] : w \in WaypointLists}

\* The generator before run_feed is called, with no tick in progress.
NoTick ==
    /\ time_iso = 0
    /\ enc = << >>
    /\ encSem = EncodeCeiling
    /\ events_to_send = << >>
    /\ event_batches = << >>
    /\ task = << >>
    /\ subSem = SubmitCeiling
    /\ tick_total = 0

Idle ==
    /\ pc = "idle"
    /\ running = FALSE
    /\ num_vehicles = 0
    /\ route_tag = "None"
    /\ poll_interval = 0
    /\ total_events_sent = 0
    /\ batch_count = 0
    /\ clock = 0
    /\ NoTick
    /\ max_batch_events \in 0..MaxBatchEvents
    /\ sent = {}
    /\ producer = "open"
    /\ outcome = "none"
    /\ summaries = 0
    /\ exit_status = -1
    /\ cli_args = << >>

InitVehicle ==
    /\ \E route \in RouteCatalogue :
       \E sw \in StartingWaypoints(route) :
       \E sp \in StartingProgress :
       \E speed \in Speeds :
           vehicles = <<new_vehicle(0, route, sw, sp, speed)>>
    /\ last_dt = {}
    /\ Idle
    /\ max_batch_events = MaxBatchEvents

\* A variant that advances by the time the tick took: the interval, or twice
\* the interval when the tick overran.
advance_vehicles_elapsed(time_step_seconds) ==
    \E elapsed \in {time_step_seconds, 2 * time_step_seconds} :
        /\ vehicles' = [k \in 1..Len(vehicles) |->
                            advance(vehicles[k], elapsed)]
        /\ last_dt' = {elapsed}

\* VehicleEventGenerator.advance_vehicles
advance_vehicles(time_step_seconds) ==
    /\ vehicles' = [k \in 1..Len(vehicles) |->
                        advance(vehicles[k], time_step_seconds)]
    /\ last_dt' = {time_step_seconds}

AdvanceCall ==
    /\ \E dt \in TimeSteps : advance_vehicles(dt)
    /\ UNCHANGED <<feedVars, tickVars, sinkVars>>
    /\ UNCHANGED exitVars

AdvancePositive ==
    /\ \E dt \in TimeSteps \ {0} : advance_vehicles(dt)
    /\ UNCHANGED <<feedVars, tickVars, sinkVars>>
    /\ UNCHANGED exitVars

NextVehicle == AdvanceCall

SpecVehicle == InitVehicle /\ [][NextVehicle]_vars

\* The laps of a vehicle that starts on a waypoint (progress 0): the caller
\* keeps calling advance with positive time steps.
InitVehicleLap ==
    /\ InitVehicle
    /\ vehicles[1].progress_to_next_waypoint = 0

SpecVehicleFair ==
    InitVehicleLap /\ [][NextVehicle]_vars /\ WF_vars(AdvancePositive)

\* ------------------------------------------------- claims, motion model
Min(a, b) == IF a < b THEN a ELSE b
Max(a, b) == IF a < b THEN b ELSE a

\* The fixed-point position pos lies on the closed segment from waypoint a to
\* waypoint b: inside the bounding box and collinear with the two.
OnSegment(pos, a, b) ==
    /\ Min(a[1], b[1]) * ProgressScale <= pos[1]
    /\ pos[1] <= Max(a[1], b[1]) * ProgressScale
    /\ Min(a[2], b[2]) * ProgressScale <= pos[2]
    /\ pos[2] <= Max(a[2], b[2]) * ProgressScale
    /\ (pos[1] - a[1] * ProgressScale) * (b[2] - a[2])
         = (pos[2] - a[2] * ProgressScale) * (b[1] - a[1])

Fleet == 1..Len(vehicles)
Advanced == last_dt # {}
AdvancedPositive == \E dt \in last_dt : dt > 0

\* C6: on a route of at least 2 waypoints, repeated advance calls with a
\* positive time step bring the vehicle back to waypoint index 0 with
\* progress 0 again and again (loop closure on every lap).
C6_LoopClosure ==
    []<>(\A k \in Fleet :
            Len(vehicles[k].route.waypoints) >= 2
                => /\ vehicles[k].current_waypoint_index = 0
                   /\ vehicles[k].progress_to_next_waypoint = 0)

\* C7: after any advance call, progress is in [0, 1) and the reported
\* position lies on the segment that starts at the current waypoint index
\* (or is the final waypoint when the index is the last one).
C7_ProgressAndPosition ==
    \A k \in Fleet :
        LET v == vehicles[k]
            i == v.current_waypoint_index
        IN  Advanced =>
              /\ 0 <= v.progress_to_next_waypoint
              /\ v.progress_to_next_waypoint < ProgressScale
              /\ (Len(v.route.waypoints) >= 1 =>
                    IF i >= LastIndex(v)
                    THEN get_current_position(v)
                           = <<WP(v, LastIndex(v))[1] * ProgressScale,
                               WP(v, LastIndex(v))[2] * ProgressScale>>
                    ELSE OnSegment(get_current_position(v),
                                   WP(v, i), WP(v, i + 1)))

\* An advance with a positive step has left a vehicle strictly inside a
\* segment of its route.
C7_Witness ==
    \E k \in Fleet :
        /\ AdvancedPositive
        /\ vehicles[k].current_waypoint_index < LastIndex(vehicles[k])
        /\ vehicles[k].current_waypoint_index > 0
        /\ vehicles[k].progress_to_next_waypoint > 0

\* C8: on a non-empty route the waypoint index stays within
\* 0..len(waypoints)-1, initially and after every advance.
C8_IndexInRange ==
    \A k \in Fleet :
        Len(vehicles[k].route.waypoints) >= 1
            => /\ 0 <= vehicles[k].current_waypoint_index
               /\ vehicles[k].current_waypoint_index <= LastIndex(vehicles[k])

\* An advance has put a vehicle on the last index of a route of several
\* waypoints (the step over a zero-length final segment).
C8_Witness ==
    \E k \in Fleet :
        /\ Advanced
        /\ Len(vehicles[k].route.waypoints) >= 3
        /\ vehicles[k].current_waypoint_index = LastIndex(vehicles[k])

\* C9: the heading of a vehicle that is not at the last index equals the
\* bearing of the segment starting at its current waypoint index (advance
\* recomputes the heading whenever it changes index or progress).
C9_HeadingMatchesSegment ==
    \A k \in Fleet :
        LET v == vehicles[k]
        IN  v.current_waypoint_index < LastIndex(v)
                => v.heading = Bearing(WP(v, v.current_waypoint_index),
                                       WP(v, v.current_waypoint_index + 1))

\* C10: no advance call changes a vehicle whose route has exactly one
\* waypoint (index, progress and heading keep their values).
C10_SingleWaypointUnaffected ==
    [][\A k \in Fleet :
          Len(vehicles[k].route.waypoints) = 1
              => vehicles'[k] = vehicles[k]]_vars

\* A vehicle on a one-waypoint route has been advanced by a positive step.
C10_Witness ==
    \E k \in Fleet :
        /\ Len(vehicles[k].route.waypoints) = 1
        /\ AdvancedPositive
        /\ vehicles[k].progress_to_next_waypoint > 0

\* A closed loop: at least 2 waypoints, the final one equal to the first.
ClosedLoop(route) ==
    /\ Len(route.waypoints) >= 2
    /\ route.waypoints[Len(route.waypoints)] = route.waypoints[1]

\* C11: on a closed-loop route, a vehicle that starts below the last index is
\* never left on the last waypoint index when advance returns.
C11_NeverParksOnDuplicate ==
    \A k \in Fleet :
        (ClosedLoop(vehicles[k].route) /\ Advanced)
            => vehicles[k].current_waypoint_index < LastIndex(vehicles[k])

\* The segment that starts at index i of the vehicle's route has a length.
NonZeroSegment(v, i) ==
    get_distance_between_points(WP(v, i), WP(v, i + 1)) > 0

\* C22: for a vehicle at index i below the last index L on a segment of
\* non-zero length, advance computes p = progress + distance / length and
\* leaves the vehicle at (i + floor(p), p - floor(p)) when i + floor(p) < L,
\* and at (0, 0) otherwise.
C22_AdvanceClosedForm ==
    [][\A k \in Fleet :
          LET v == vehicles[k]
              i == v.current_waypoint_index
              L == LastIndex(v)
          IN  (/\ Len(v.route.waypoints) >= 1
               /\ i < L
               /\ NonZeroSegment(v, i)
               /\ last_dt' # {})
                 => \E dt \in last_dt' :
                      LET p == v.progress_to_next_waypoint
                                  + progress_increment(
                                        v, dt,
                                        get_distance_between_points(
                                            WP(v, i), WP(v, i + 1)))
                          whole == p \div ProgressScale
                          w == vehicles'[k]
                      IN  IF i + whole < L
                          THEN /\ w.current_waypoint_index = i + whole
                               /\ w.progress_to_next_waypoint
                                     = p - whole * ProgressScale
                          ELSE /\ w.current_waypoint_index = 0
                               /\ w.progress_to_next_waypoint = 0]_vars

\* A vehicle stands exactly on a waypoint it has reached by a positive step
\* over segments that all have a length.
C22_Witness ==
    \E k \in Fleet :
        LET v == vehicles[k]
        IN  /\ Len(v.route.waypoints) = 4
            /\ \A i \in 0..2 : NonZeroSegment(v, i)
            /\ AdvancedPositive
            /\ v.current_waypoint_index = 2
            /\ v.progress_to_next_waypoint = 0

\* ------------------------------------------------------------ generator.py
\* VehicleEventGenerator.create_demo_routes: three closed routes of 6, 7 and 6
\* waypoints (the second runs out and back over the same points), laid on the
\* waypoint grid.
create_demo_routes ==
    << [tag |-> "manhattan-loop",
        waypoints |-> << <<0, 0>>, <<1, 0>>, <<1, 1>>, <<1, 2>>, <<0, 2>>,
                         <<0, 0>> >>],
       [tag |-> "brooklyn-express",
        waypoints |-> << <<0, 0>>, <<0, 1>>, <<0, 2>>, <<1, 2>>, <<0, 2>>,
                         <<0, 1>>, <<0, 0>> >>],
       [tag |-> "queens-connector",
        waypoints |-> << <<1, 0>>, <<1, 2>>, <<0, 2>>, <<0, 1>>, <<0, 0>>,
                         <<1, 0>> >>] >>

\* route_tag arguments of run_feed: None, a known tag, an unknown tag.
RouteTags == {"None", "brooklyn-express", "no-such-route"}

\* A variant whose fallback is the whole catalogue instead of its first route.
candidate_routes_fallback_all(tag) ==
    LET all == create_demo_routes
        wanted(r) == r.tag = tag
        routes == IF tag # "None" /\ tag # "" /\ tag # "all-routes"
                  THEN SelectSeq(all, wanted)
                  ELSE all
    IN  IF Len(routes) = 0 THEN all ELSE routes

\* The candidate routes of setup_vehicles (generator.py:127-135).
candidate_routes(tag) ==
    LET all == create_demo_routes
        wanted(r) == r.tag = tag
        routes == IF tag # "None" /\ tag # "" /\ tag # "all-routes"
                  THEN SelectSeq(all, wanted)
                  ELSE all
    IN  IF Len(routes) = 0 THEN SubSeq(all, 1, 1) ELSE routes

\* The draws of Python's random generator in setup_vehicles, as functions of
\* the generator's seed and the loop index i.
randint_starting_waypoint(seed, i, route) ==
    (seed + i) % (Max(0, Len(route.waypoints) - 2) + 1)
uniform_starting_progress(seed, i) == ((seed + i) * 5) % ProgressScale
uniform_speed(seed, i) == IF (seed + i) % 2 = 0 THEN 20 ELSE 40

\* A variant that draws the route of each vehicle at random.
setup_vehicles_random_route(tag, n, seed) ==
    LET routes == candidate_routes(tag)
    IN  [k \in 1..n |->
            LET i == k - 1
                route == routes[(((seed + i) * i) % Len(routes)) + 1]
            IN  new_vehicle(i, route,
                            randint_starting_waypoint(seed, i, route),
                            uniform_starting_progress(seed, i),
                            uniform_speed(seed, i))]

\* VehicleEventGenerator.setup_vehicles: the new value of self.vehicles.
setup_vehicles(tag, n, seed) ==
    LET routes == candidate_routes(tag)
    IN  [k \in 1..n |->
            LET i == k - 1
                route == routes[(i % Len(routes)) + 1]
            IN  new_vehicle(i, route,
                            randint_starting_waypoint(seed, i, route),
                            uniform_starting_progress(seed, i),
                            uniform_speed(seed, i))]

\* ---- setup_vehicles on its own
\* route_tag arguments of setup_vehicles: no filter (None, "", "all-routes"),
\* each known tag, an unknown tag.
SetupTags ==
    RouteTags \cup {"", "all-routes", "manhattan-loop", "queens-connector"}

\* A generator on which setup_vehicles has not been called.
InitSetup ==
    /\ vehicles = << >>
    /\ last_dt = {}
    /\ Idle
    /\ max_batch_events = MaxBatchEvents

\* One call of setup_vehicles(agency, route_tag, num_vehicles).
SetupCall ==
    /\ \E n \in 0..MaxSetupVehicles, tag \in SetupTags, seed \in 0..MaxSeed :
          /\ vehicles' = setup_vehicles(tag, n, seed)
          /\ num_vehicles' = n
          /\ route_tag' = tag
    /\ UNCHANGED <<last_dt, pc, running, poll_interval, total_events_sent,
                   batch_count, clock, tickVars, sinkVars, exitVars>>

NextSetup == SetupCall

SpecSetup == InitSetup /\ [][NextSetup]_vars

\* A variant that reads the clock again for the envelope's time header.
create_event_data_second_clock(v, agency, t) ==
    [agency |-> agency,
     routeTag |-> v.route.tag,
     vehicleId |-> v.id,
     lat |-> get_current_position(v)[1],
     lon |-> get_current_position(v)[2],
     heading |-> v.heading,
     speedKmHr |-> v.speed_km_hr,
     timestamp |-> t,
     predictable |-> TRUE,
     ce_subject |-> <<agency, v.id>>,
     ce_time |-> t + 1]

\* VehicleEventGenerator._create_event_data_optimized: the payload fields and
\* the envelope headers that depend on the vehicle or the tick.
create_event_data_optimized(v, agency, t) ==
    [agency |-> agency,
     routeTag |-> v.route.tag,
     vehicleId |-> v.id,
     lat |-> get_current_position(v)[1],
     lon |-> get_current_position(v)[2],
     heading |-> v.heading,
     speedKmHr |-> v.speed_km_hr,
     timestamp |-> t,
     predictable |-> TRUE,
     ce_subject |-> <<agency, v.id>>,
     ce_time |-> t]

\* A variant that cuts whole chunks only and leaves the rest of the list out.
partition_whole_chunks(events, size) ==
    [k \in 1..(Len(events) \div size) |->
        SubSeq(events, (k - 1) * size + 1, k * size)]

\* The chunks of _send_events_parallel_batches (generator.py:252):
\* events[i:i + size] for i in range(0, len(events), size).
partition(events, size) ==
    LET n == Len(events)
        count == (n + size - 1) \div size
    IN  [k \in 1..count |->
            SubSeq(events, (k - 1) * size + 1, Min(k * size, n))]

\* ---- one chunk submission: _send_single_batch, cut at its awaits
\* A submit task is a record:
\*   pc               "wait" (at the semaphore), "create_batch" (line 269),
\*                    "send_full" (line 279), "create_next" (line 282),
\*                    "send_final" (line 288), "done"
\*   i                events of the chunk taken by the for loop so far
\*   events_in_batch  the code's variable
\*   event_data_batch the events added to the current EventDataBatch
\*   sends            send_batch calls that have succeeded
\*   result           the return value, once done
\*   failed           whether a sink operation raised in this submission
new_task ==
    [pc |-> "wait", i |-> 0, events_in_batch |-> 0, event_data_batch |-> << >>,
     sends |-> 0, result |-> 0, failed |-> FALSE]

\* A variant that reports the events counted towards the last sink batch.
return_sent_last_batch(tk, chunk) ==
    [tk EXCEPT !.pc = "done", !.result = tk.events_in_batch]

\* return len(events_batch)  (generator.py:290)
return_sent(tk, chunk) ==
    [tk EXCEPT !.pc = "done", !.result = Len(chunk)]

\* A variant that reports the events taken before the error.
on_sink_error_partial(tk) ==
    [tk EXCEPT !.pc = "done", !.result = tk.i, !.failed = TRUE]

\* A variant that logs the error and attempts the sink operation again.
on_sink_error_retry(tk) ==
    [tk EXCEPT !.failed = TRUE]

\* except Exception: log and return 0  (generator.py:292-294)
on_sink_error(tk) ==
    [tk EXCEPT !.pc = "done", !.result = 0, !.failed = TRUE]

\* EventDataBatch.add raises ValueError when the batch cannot take the event.
batch_is_full(batch, cap) == Len(batch) >= cap

\* A variant of the for loop that takes the events from the end of the chunk.
RECURSIVE add_events_from_end(_, _, _)
add_events_from_end(tk, chunk, cap) ==
    IF tk.i = Len(chunk)
    THEN IF tk.events_in_batch > 0
         THEN [tk EXCEPT !.pc = "send_final"]
         ELSE [tk EXCEPT !.pc = "done", !.result = Len(chunk)]
    ELSE IF ~(Len(tk.event_data_batch) >= cap)
    THEN add_events_from_end(
             [tk EXCEPT !.event_data_batch =
                            Append(@, chunk[Len(chunk) - tk.i]),
                        !.events_in_batch = @ + 1,
                        !.i = @ + 1],
             chunk, cap)
    ELSE IF tk.events_in_batch > 0
    THEN [tk EXCEPT !.pc = "send_full"]
    ELSE [tk EXCEPT !.pc = "create_next"]

\* The for loop of _send_single_batch (generator.py:272-288) from event i on,
\* up to its next await or its return.
RECURSIVE add_events(_, _, _)
add_events(tk, chunk, cap) ==
    IF tk.i = Len(chunk)
    THEN IF tk.events_in_batch > 0
         THEN [tk EXCEPT !.pc = "send_final"]
         ELSE return_sent(tk, chunk)
    ELSE IF ~batch_is_full(tk.event_data_batch, cap)
    THEN add_events([tk EXCEPT !.event_data_batch = Append(@, chunk[tk.i + 1]),
                               !.events_in_batch = @ + 1,
                               !.i = @ + 1],
                    chunk, cap)
    ELSE IF tk.events_in_batch > 0
    THEN [tk EXCEPT !.pc = "send_full"]
    ELSE [tk EXCEPT !.pc = "create_next"]

\* A variant that opens the fresh batch without the rejected event.
reopen_batch_drop(tk, chunk, cap) ==
    add_events([tk EXCEPT !.event_data_batch = << >>,
                          !.events_in_batch = 1,
                          !.i = @ + 1],
               chunk, cap)

\* The fresh batch after a full one (generator.py:282-284): the rejected
\* event is added to it; a ValueError of this add reaches the outer except.
reopen_batch(tk, chunk, cap) ==
    IF batch_is_full(<< >>, cap)
    THEN on_sink_error(tk)
    ELSE add_events([tk EXCEPT !.event_data_batch = <<chunk[tk.i + 1]>>,
                               !.events_in_batch = 1,
                               !.i = @ + 1],
                    chunk, cap)

\* A variant in which the tasks send one batch kept by the generator, the one
\* the first task holds.
delivered_shared(t, tk) ==
    [owner |-> t, serial |-> tk.sends + 1,
     events |-> task[1].event_data_batch]

\* The record of a delivered batch: its task, its rank among the task's
\* batches, its events.
delivered(t, tk) ==
    [owner |-> t, serial |-> tk.sends + 1, events |-> tk.event_data_batch]

\* asyncio.gather of the encode tasks: every task has returned.
encode_gather_done(tasks) ==
    \A k \in DOMAIN tasks : tasks[k].pc = "done"

\* A variant of the join that returns as soon as one task is done.
submit_gather_first(tasks) ==
    \E t \in DOMAIN tasks : tasks[t].pc = "done"

\* asyncio.gather of the submit tasks: every task has returned.
submit_gather_done(tasks) ==
    \A t \in DOMAIN tasks : tasks[t].pc = "done"

RECURSIVE sum_results(_, _)
sum_results(tasks, n) ==
    IF n = 0 THEN 0 ELSE tasks[n].result + sum_results(tasks, n - 1)

\* A variant of the semaphore that never blocks.
may_acquire_always(value) == TRUE

\* asyncio.Semaphore.acquire returns only while the value is positive.
may_acquire(value) == value > 0

\* ---- actions
\* run_feed up to its loop (generator.py:360-375), for the given arguments
\* and the seed of the random generator.
run_feed_entry(n, tag, interval, seed) ==
    /\ vehicles' = setup_vehicles(tag, n, seed)
    /\ num_vehicles' = n
    /\ route_tag' = tag
    /\ poll_interval' = interval
    /\ running' = TRUE
    /\ total_events_sent' = 0
    /\ batch_count' = 0
    /\ pc' = "loop"
    /\ UNCHANGED <<last_dt, clock, tickVars, sinkVars>>
    /\ UNCHANGED exitVars

RunFeed ==
    /\ pc = "idle"
    /\ \E n \in 0..MaxVehicles, tag \in RouteTags, interval \in PollIntervals,
          seed \in 0..MaxSeed :
             run_feed_entry(n, tag, interval, seed)

\* run_feed for a small fleet on all routes.
RunSmallFeed ==
    /\ pc = "idle"
    /\ \E n \in 0..MaxSmallFleet, interval \in PollIntervals :
          run_feed_entry(n, "None", interval, 0)

\* One more iteration: send_vehicle_events takes the timestamp and starts
\* the encode tasks (generator.py:378-382, 209-219, 232-243).
TickStart ==
    /\ pc = "loop"
    /\ running
    /\ producer # "none"
    /\ batch_count < MaxTicks
    /\ time_iso' = clock + 1
    /\ clock' = clock + 1
    /\ enc' = [k \in 1..Len(vehicles) |-> [pc |-> "wait", event |-> << >>]]
    /\ encSem' = EncodeCeiling
    /\ sent' = {}
    /\ pc' = "encode"
    /\ UNCHANGED <<vehicleVars, running, num_vehicles, route_tag, poll_interval,
                   total_events_sent, batch_count, events_to_send,
                   event_batches, task, subSem, tick_total, max_batch_events>>
    /\ UNCHANGED exitVars

\* create_event_with_semaphore enters the semaphore.
EncAcquire ==
    /\ pc = "encode"
    /\ \E k \in DOMAIN enc :
          /\ enc[k].pc = "wait"
          /\ may_acquire(encSem)
          /\ enc' = [enc EXCEPT ![k].pc = "run"]
    /\ encSem' = encSem - 1
    /\ UNCHANGED <<vehicleVars, feedVars, sinkVars, time_iso, events_to_send,
                   event_batches, task, subSem, tick_total>>
    /\ UNCHANGED exitVars

\* _create_event_data_optimized returns and the semaphore is released.
EncFinish ==
    /\ pc = "encode"
    /\ \E k \in DOMAIN enc :
          /\ enc[k].pc = "run"
          /\ enc' = [enc EXCEPT ![k] =
                        [pc |-> "done",
                         event |-> <<create_event_data_optimized(
                                        vehicles[k], Agency, time_iso)>>]]
    /\ encSem' = encSem + 1
    /\ UNCHANGED <<vehicleVars, feedVars, sinkVars, time_iso, events_to_send,
                   event_batches, task, subSem, tick_total>>
    /\ UNCHANGED exitVars

\* The encode gather returns; _send_events_parallel_batches cuts the chunks
\* and starts the submit tasks, or returns 0 for no events
\* (generator.py:219-222, 245-262).
EncodeJoin ==
    /\ pc = "encode"
    /\ encode_gather_done(enc)
    /\ LET events == [k \in DOMAIN enc |-> enc[k].event[1]]
       IN  /\ events_to_send' = events
           /\ IF Len(events) = 0
              THEN /\ tick_total' = 0
                   /\ pc' = "dispatched"
                   /\ UNCHANGED <<event_batches, task, subSem>>
              ELSE /\ event_batches' = partition(events, batch_size)
                   /\ task' = [t \in DOMAIN partition(events, batch_size)
                                  |-> new_task]
                   /\ subSem' = SubmitCeiling
                   /\ pc' = "submit"
                   /\ UNCHANGED tick_total
    /\ UNCHANGED <<vehicleVars, running, num_vehicles, route_tag, poll_interval,
                   total_events_sent, batch_count, clock, time_iso, enc,
                   encSem, sinkVars>>
    /\ UNCHANGED exitVars

\* The step of submit task t to newtk; the semaphore is released on return.
TaskStep(t, newtk) ==
    /\ task' = [task EXCEPT ![t] = newtk]
    /\ subSem' = IF newtk.pc = "done" THEN subSem + 1 ELSE subSem

\* send_batch_with_semaphore enters the semaphore and calls create_batch.
SubAcquire ==
    /\ pc = "submit"
    /\ \E t \in DOMAIN task :
          /\ task[t].pc = "wait"
          /\ may_acquire(subSem)
          /\ task' = [task EXCEPT ![t].pc = "create_batch"]
    /\ subSem' = subSem - 1
    /\ UNCHANGED <<vehicleVars, feedVars, sinkVars, time_iso, enc, encSem,
                   events_to_send, event_batches, tick_total>>
    /\ UNCHANGED exitVars

\* The first create_batch returns or raises (generator.py:269).
CreateBatchReturns ==
    /\ pc = "submit"
    /\ \E t \in DOMAIN task, ok \in BOOLEAN :
          /\ task[t].pc = "create_batch"
          /\ TaskStep(t, IF ok
                         THEN add_events(task[t], event_batches[t],
                                         max_batch_events)
                         ELSE on_sink_error(task[t]))
    /\ UNCHANGED <<vehicleVars, feedVars, sinkVars, time_iso, enc, encSem,
                   events_to_send, event_batches, tick_total>>
    /\ UNCHANGED exitVars

\* send_batch of a full batch returns or raises (generator.py:279).
SendFullReturns ==
    /\ pc = "submit"
    /\ \E t \in DOMAIN task, ok \in BOOLEAN :
          /\ task[t].pc = "send_full"
          /\ IF ok
             THEN /\ sent' = sent \cup {delivered(t, task[t])}
                  /\ TaskStep(t, [task[t] EXCEPT !.pc = "create_next",
                                                 !.sends = @ + 1])
             ELSE /\ UNCHANGED sent
                  /\ TaskStep(t, on_sink_error(task[t]))
    /\ UNCHANGED <<vehicleVars, feedVars, max_batch_events, time_iso, enc,
                   encSem, events_to_send, event_batches, tick_total>>
    /\ UNCHANGED exitVars

\* create_batch after a full batch returns or raises (generator.py:282-284).
CreateNextReturns ==
    /\ pc = "submit"
    /\ \E t \in DOMAIN task, ok \in BOOLEAN :
          /\ task[t].pc = "create_next"
          /\ TaskStep(t, IF ok
                         THEN reopen_batch(task[t], event_batches[t],
                                           max_batch_events)
                         ELSE on_sink_error(task[t]))
    /\ UNCHANGED <<vehicleVars, feedVars, sinkVars, time_iso, enc, encSem,
                   events_to_send, event_batches, tick_total>>
    /\ UNCHANGED exitVars

\* send_batch of the last batch returns or raises (generator.py:287-290).
SendFinalReturns ==
    /\ pc = "submit"
    /\ \E t \in DOMAIN task, ok \in BOOLEAN :
          /\ task[t].pc = "send_final"
          /\ IF ok
             THEN /\ sent' = sent \cup {delivered(t, task[t])}
                  /\ TaskStep(t, return_sent([task[t] EXCEPT !.sends = @ + 1],
                                             event_batches[t]))
             ELSE /\ UNCHANGED sent
                  /\ TaskStep(t, on_sink_error(task[t]))
    /\ UNCHANGED <<vehicleVars, feedVars, max_batch_events, time_iso, enc,
                   encSem, events_to_send, event_batches, tick_total>>
    /\ UNCHANGED exitVars

\* The submit gather returns and the results are summed (generator.py:262-264).
SubmitJoin ==
    /\ pc = "submit"
    /\ submit_gather_done(task)
    /\ tick_total' = sum_results(task, Len(task))
    /\ pc' = "dispatched"
    /\ UNCHANGED <<vehicleVars, running, num_vehicles, route_tag, poll_interval,
                   total_events_sent, batch_count, clock, time_iso, enc,
                   encSem, events_to_send, event_batches, task, subSem,
                   sinkVars>>
    /\ UNCHANGED exitVars

\* send_vehicle_events returns; run_feed counts the tick, advances the
\* vehicles and sleeps for the rest of the interval, if any
\* (generator.py:224-230, 384-407).
FinishTick ==
    /\ pc = "dispatched"
    /\ total_events_sent' = total_events_sent + num_vehicles
    /\ batch_count' = batch_count + 1
    /\ advance_vehicles(poll_interval)
    /\ \E overrun \in BOOLEAN : pc' = IF overrun THEN "loop" ELSE "sleep"
    /\ time_iso' = 0
    /\ enc' = << >>
    /\ encSem' = EncodeCeiling
    /\ events_to_send' = << >>
    /\ event_batches' = << >>
    /\ task' = << >>
    /\ subSem' = SubmitCeiling
    /\ tick_total' = 0
    /\ UNCHANGED <<running, num_vehicles, route_tag, poll_interval, clock,
                   sinkVars>>
    /\ UNCHANGED exitVars

\* asyncio.sleep returns (generator.py:405).
SleepReturns ==
    /\ pc = "sleep"
    /\ pc' = "loop"
    /\ UNCHANGED <<vehicleVars, running, num_vehicles, route_tag, poll_interval,
                   total_events_sent, batch_count, clock, tickVars, sinkVars>>
    /\ UNCHANGED exitVars

\* ---- the end of the feed
\* The states in which run_feed is suspended at an await and the event loop
\* runs other callbacks: the two gathers and asyncio.sleep.
AwaitPoints == {"encode", "submit", "sleep"}

\* total_elapsed of the finally block: loop.time() read again after the loop.
\* The clock is monotonic and statements have run since the first read
\* (generator.py:375), so the model measures it in loop-head evaluations.
total_elapsed == batch_count + 1

\* The final performance report (generator.py:417-426).
final_report == IF total_elapsed > 0 THEN summaries + 1 ELSE summaries

\* A variant of the finally block that leaves self.running as it is.
finally_block_keeps_flag(how) ==
    /\ running' = running
    /\ summaries' = final_report
    /\ outcome' = how
    /\ pc' = "stopped"

\* The finally block of run_feed (generator.py:414-428); `how` records the
\* way run_feed is left.
finally_block(how) ==
    /\ running' = FALSE
    /\ summaries' = final_report
    /\ outcome' = how
    /\ pc' = "stopped"

\* The exit status of the feed command for each way run_feed is left
\* (cli.py:147-178).  A normal return, also after run_feed has caught
\* KeyboardInterrupt, ends the command with 0.  An Exception reaches
\* sys.exit(1) of run_feed_async.  A cancellation is a CancelledError, which
\* neither except clause of run_feed_async matches: asyncio.run ends with
\* KeyboardInterrupt outside every handler of cli.py, a non-zero status.
exit_code(how) ==
    CASE how = "returned" -> 0
      [] how = "interrupted" -> 0
      [] how = "raised" -> 1
      [] how = "cancelled" -> 1

\* The locals of the tick in progress are dropped with its frames.
drop_tick ==
    /\ time_iso' = 0
    /\ enc' = << >>
    /\ encSem' = EncodeCeiling
    /\ events_to_send' = << >>
    /\ event_batches' = << >>
    /\ task' = << >>
    /\ subSem' = SubmitCeiling
    /\ tick_total' = 0

\* Another task clears self.running while run_feed is suspended.
ClearRunning ==
    /\ pc \in AwaitPoints
    /\ running
    /\ running' = FALSE
    /\ UNCHANGED <<vehicleVars, pc, num_vehicles, route_tag, poll_interval,
                   total_events_sent, batch_count, clock, tickVars, sinkVars,
                   exitVars>>

\* Another task calls stop() while run_feed is suspended: the producer is
\* closed and self.producer_client set to None (generator.py:65-70).
StopCalled ==
    /\ pc \in AwaitPoints
    /\ producer = "open"
    /\ producer' = "none"
    /\ UNCHANGED <<vehicleVars, feedVars, tickVars, sinkVars, outcome,
                   summaries, exit_status, cli_args>>

\* while self.running is false: the loop ends and run_feed returns
\* (generator.py:378, 414-428).
LoopExit ==
    /\ pc = "loop"
    /\ ~running
    /\ finally_block("returned")
    /\ UNCHANGED <<vehicleVars, num_vehicles, route_tag, poll_interval,
                   total_events_sent, batch_count, clock, tickVars, sinkVars,
                   producer, exit_status, cli_args>>

\* send_vehicle_events raises RuntimeError without a producer
\* (generator.py:206-207); run_feed logs it and raises it again
\* (generator.py:411-428).
TickFails ==
    /\ pc = "loop"
    /\ running
    /\ producer = "none"
    /\ finally_block("raised")
    /\ UNCHANGED <<vehicleVars, num_vehicles, route_tag, poll_interval,
                   total_events_sent, batch_count, clock, tickVars, sinkVars,
                   producer, exit_status, cli_args>>

\* An interrupt while run_feed is suspended: the main task is cancelled, the
\* gather it waits for cancels its unfinished tasks, and CancelledError
\* passes both except clauses of run_feed to the finally block
\* (generator.py:409-428).
InterruptAwaiting ==
    /\ pc \in AwaitPoints
    /\ finally_block("cancelled")
    /\ drop_tick
    /\ UNCHANGED <<vehicleVars, num_vehicles, route_tag, poll_interval,
                   total_events_sent, batch_count, clock, sinkVars,
                   producer, exit_status, cli_args>>

\* KeyboardInterrupt raised in the code of run_feed itself, between two
\* awaits: except KeyboardInterrupt catches it (generator.py:409-410).
InterruptRunning ==
    /\ pc \in {"loop", "dispatched"}
    /\ finally_block("interrupted")
    /\ drop_tick
    /\ UNCHANGED <<vehicleVars, num_vehicles, route_tag, poll_interval,
                   total_events_sent, batch_count, clock, sinkVars,
                   producer, exit_status, cli_args>>

\* The generator's context is left, which closes the producer
\* (generator.py:42-44, 65-70), and the command ends (cli.py:147-178).
Exit ==
    /\ pc = "stopped"
    /\ pc' = "exited"
    /\ producer' = "none"
    /\ exit_status' = exit_code(outcome)
    /\ UNCHANGED <<vehicleVars, running, num_vehicles, route_tag,
                   poll_interval, total_events_sent, batch_count, clock,
                   tickVars, sinkVars, outcome, summaries, cli_args>>

\* ------------------------------------------------------------------ cli.py
\* Values of an option on the command line: "None" when it is not given.
\* Values of an environment variable: "unset" when it is not in the
\* environment (after load_dotenv).
OptionValues == {"None", "", "given"}
EnvValues == {"unset", "", "fromenv"}
\* --vehicles and --poll-interval (in tenths of a second) as given or
\* defaulted by click: the defaults are 1000 and 0.5 s.
VehicleCounts == {-1, 0, 1, 1000}
PollTenths == {-5, 0, 1, 5}

\* The value click hands to feed for an option declared with envvar=...: the
\* option, else the environment variable unless unset or empty, else None.
click_option(opt, env) ==
    IF opt # "None" THEN opt
    ELSE IF env \notin {"unset", ""} THEN env
    ELSE "None"

\* os.getenv(name, default)
getenv(env, default) == IF env = "unset" THEN default ELSE env

\* Python's `not x` for an optional string.
falsy(x) == x \in {"None", ""}

\* The feed command up to asyncio.run (cli.py:84-154): the configuration
\* from options and environment, the high-performance defaults, the
\* validation, and the arguments of run_feed_async.
feed(a) ==
    LET ns == click_option(a.opt_namespace, a.env_namespace)
        name == click_option(a.opt_name, a.env_name)
        event_hub_namespace ==
            IF falsy(ns) THEN getenv(a.env_namespace, "None") ELSE ns
        event_hub_name ==
            IF falsy(name) THEN getenv(a.env_name, "vehicle-events")
            ELSE name
        vehicles_arg ==
            IF a.high_performance /\ a.vehicles = 1000 THEN 5000
            ELSE a.vehicles
        poll_arg ==
            IF a.high_performance /\ a.poll_interval = 5 THEN 1
            ELSE a.poll_interval
        rejected == [a EXCEPT !.stage = "rejected"]
    IN  IF falsy(event_hub_namespace) THEN rejected
        ELSE IF falsy(event_hub_name) THEN rejected
        ELSE IF vehicles_arg <= 0 THEN rejected
        ELSE IF poll_arg <= 0 THEN rejected
        ELSE [a EXCEPT !.stage = "started",
                       !.call = <<event_hub_namespace, event_hub_name,
                                  vehicles_arg, poll_arg>>]

\* The feed command has been invoked: no generator exists yet.
InitCli ==
    /\ vehicles = << >>
    /\ last_dt = {}
    /\ pc = "idle"
    /\ running = FALSE
    /\ num_vehicles = 0
    /\ route_tag = "None"
    /\ poll_interval = 0
    /\ total_events_sent = 0
    /\ batch_count = 0
    /\ clock = 0
    /\ NoTick
    /\ max_batch_events = MaxBatchEvents
    /\ sent = {}
    /\ producer = "none"
    /\ outcome = "none"
    /\ summaries = 0
    /\ exit_status = -1
    /\ \E on \in OptionValues, en \in EnvValues, oh \in OptionValues,
          eh \in EnvValues, n \in VehicleCounts, p \in PollTenths,
          hp \in BOOLEAN :
          cli_args = <<[opt_namespace |-> on, env_namespace |-> en,
                        opt_name |-> oh, env_name |-> eh,
                        vehicles |-> n, poll_interval |-> p,
                        high_performance |-> hp,
                        stage |-> "parsed", call |-> << >>]>>

\* The body of feed runs: sys.exit(1) on a rejected configuration, otherwise
\* run_feed_async creates the generator and its context starts the producer
\* (cli.py:162-167, generator.py:37-63).
FeedCommand ==
    /\ Len(cli_args) = 1
    /\ cli_args[1].stage = "parsed"
    /\ cli_args' = <<feed(cli_args[1])>>
    /\ IF feed(cli_args[1]).stage = "rejected"
       THEN /\ exit_status' = 1
            /\ pc' = "exited"
            /\ UNCHANGED producer
       ELSE /\ producer' = "open"
            /\ UNCHANGED <<exit_status, pc>>
    /\ UNCHANGED <<vehicleVars, running, num_vehicles, route_tag,
                   poll_interval, total_events_sent, batch_count, clock,
                   tickVars, sinkVars, outcome, summaries>>

NextCli == FeedCommand

SpecCli == InitCli /\ [][NextCli]_vars

\* The generator after start(), before run_feed.
Init ==
    /\ vehicles = << >>
    /\ last_dt = {}
    /\ Idle

\* The steps of a feed that has been started.
FeedStep ==
    \/ TickStart
    \/ EncAcquire
    \/ EncFinish
    \/ EncodeJoin
    \/ SubAcquire
    \/ CreateBatchReturns
    \/ SendFullReturns
    \/ CreateNextReturns
    \/ SendFinalReturns
    \/ SubmitJoin
    \/ FinishTick
    \/ SleepReturns
    \/ ClearRunning
    \/ StopCalled
    \/ LoopExit
    \/ TickFails
    \/ InterruptAwaiting
    \/ InterruptRunning
    \/ Exit

Next == RunFeed \/ FeedStep

Spec == Init /\ [][Next]_vars

\* The feed of a small fleet, in which the event loop keeps running whatever
\* is ready and every call into the sink returns or raises.
NextSmall == RunSmallFeed \/ FeedStep

SpecFair == Init /\ [][NextSmall]_vars /\ WF_vars(NextSmall)

\* ------------------------------------------- claims, dispatch pipeline
Chunks == DOMAIN task
InSink(t) ==
    task[t].pc \in {"create_batch", "send_full", "create_next", "send_final"}
Returned(t) == task[t].pc = "done"
NoneInFlight ==
    /\ \A t \in Chunks : Returned(t)
    /\ \A k \in DOMAIN enc : enc[k].pc = "done"

\* The sizes of the first n chunks whose submission failed, added up.
RECURSIVE FailedSizes(_)
FailedSizes(n) ==
    IF n = 0
    THEN 0
    ELSE (IF task[n].failed THEN Len(event_batches[n]) ELSE 0)
            + FailedSizes(n - 1)

\* C1: the tick total returned by _send_events_parallel_batches for a fleet
\* of K vehicles is K minus the sizes of the chunks whose submission failed
\* (K when no sink operation fails).
C1_TickTotal ==
    pc = "dispatched" => tick_total = num_vehicles - FailedSizes(Len(task))

\* A tick of three chunks has been summed with a failed and a successful one.
C1_Witness ==
    /\ pc = "dispatched"
    /\ Len(task) >= 3
    /\ \E t \in Chunks : task[t].failed
    /\ tick_total > 0

\* C2: a sink error is caught inside its chunk submission, which reports 0;
\* the step in which it happens leaves every sibling submission as it is, and
\* when the tick's gather returns every submission has returned, each one
\* without an error reporting the size of its own chunk.
C2_ErrorStaysInItsChunk ==
    /\ [](/\ \A t \in Chunks :
                task[t].failed => Returned(t) /\ task[t].result = 0
          /\ pc = "dispatched" =>
                \A t \in Chunks :
                    /\ Returned(t)
                    /\ ~task[t].failed
                          => task[t].result = Len(event_batches[t]))
    /\ [][(pc = "submit" /\ pc' = "submit") =>
             \A t \in Chunks :
                 (task'[t].failed /\ ~task[t].failed) =>
                     \A u \in Chunks \ {t} : task'[u] = task[u]]_vars

\* One submission has failed while a sibling is still inside the sink.
C2_Witness ==
    /\ pc = "submit"
    /\ \E t \in Chunks, u \in Chunks :
          /\ task[t].failed
          /\ InSink(u)
          /\ task[u].sends > 0

\* The batches a submission has delivered, and their concatenation in the
\* order of delivery.
BatchesOf(t) == {b \in sent : b.owner = t}
RECURSIVE Delivered(_, _)
Delivered(t, n) ==
    IF n = 0
    THEN << >>
    ELSE Delivered(t, n - 1)
            \o (CHOOSE b \in BatchesOf(t) : b.serial = n).events

\* C3: a submission that meets no sink error has, when it returns, delivered
\* every event of its chunk exactly once, in batches that are never empty
\* and never over the sink's capacity, one batch per 'full' signal plus the
\* last one, and it reports the size of the chunk.
C3_FullBatchesFlushed ==
    \A t \in Chunks :
        (Returned(t) /\ ~task[t].failed) =>
            /\ max_batch_events >= 1
            /\ Cardinality(BatchesOf(t)) = task[t].sends
            /\ \A b \in BatchesOf(t) :
                  /\ b.serial \in 1..task[t].sends
                  /\ Len(b.events) >= 1
                  /\ Len(b.events) <= max_batch_events
            /\ Delivered(t, task[t].sends) = event_batches[t]
            /\ task[t].result = Len(event_batches[t])

\* A submission has returned after a 'full' signal: two batches, no error.
C3_Witness ==
    \E t \in Chunks :
        /\ Returned(t)
        /\ ~task[t].failed
        /\ task[t].sends >= 2
        /\ Len(event_batches[t]) > max_batch_events

\* C4: dispatch and advance never overlap.  Outside the encode and submit
\* phases no encode or submit task is in flight; the tick total is computed,
\* the vehicles are advanced and the next tick begins only in such a state;
\* during dispatch no vehicle changes.
C4_DispatchThenAdvance ==
    /\ [](pc \notin {"encode", "submit"} => NoneInFlight)
    /\ [][/\ (pc' = "dispatched" /\ pc # "dispatched")
                => \A t \in Chunks : Returned(t)
          /\ vehicles' # vehicles
                => \/ pc = "idle"
                   \/ pc = "dispatched" /\ NoneInFlight
          /\ pc \in {"encode", "submit"} => vehicles' = vehicles]_vars

\* The second tick of a fleet of several chunks has been dispatched: its
\* total is there and the vehicles have been advanced once.
C4_Witness ==
    /\ pc = "dispatched"
    /\ batch_count >= 1
    /\ last_dt # {}
    /\ Len(task) >= 2
    /\ \E t \in Chunks : task[t].sends >= 2

\* C5: at most SubmitCeiling chunk submissions are inside their sink
\* interaction at once, and at most EncodeCeiling encodings are in progress
\* at once.
C5_BoundedConcurrency ==
    /\ Cardinality({t \in Chunks : InSink(t)}) <= SubmitCeiling
    /\ Cardinality({k \in DOMAIN enc : enc[k].pc = "run"}) <= EncodeCeiling

\* The submit gate is saturated: SubmitCeiling submissions are inside the
\* sink and another one waits at the semaphore.
C5_Witness ==
    /\ Cardinality({t \in Chunks : InSink(t)}) = SubmitCeiling
    /\ \E t \in Chunks : task[t].pc = "wait"
    /\ subSem = 0

\* ------------------------------------------------- claims, fleet setup
\* The vehicles of the fleet that run on the route with the given tag.
OnRoute(tag) == {k \in Fleet : vehicles[k].route.tag = tag}

\* C17: setup_vehicles creates num_vehicles vehicles with pairwise distinct
\* ids, vehicle i on routes[i mod len(routes)] of the candidate routes, so
\* that the vehicle counts of any two candidate routes differ by at most 1.
C17_RoundRobin ==
    LET routes == candidate_routes(route_tag)
    IN  /\ Len(vehicles) = num_vehicles
        /\ \A j \in Fleet, k \in Fleet :
              j # k => vehicles[j].id # vehicles[k].id
        /\ \A k \in Fleet :
              vehicles[k].route = routes[((k - 1) % Len(routes)) + 1]
        /\ \A a \in DOMAIN routes, b \in DOMAIN routes :
              Cardinality(OnRoute(routes[a].tag))
                 - Cardinality(OnRoute(routes[b].tag)) <= 1

\* A fleet that does not divide evenly over three routes, with ids of two
\* digits.
C17_Witness ==
    /\ Len(candidate_routes(route_tag)) = 3
    /\ num_vehicles >= 10
    /\ num_vehicles % 3 = 1
    /\ Len(vehicles) = num_vehicles
    /\ Cardinality(OnRoute("manhattan-loop"))
          = Cardinality(OnRoute("queens-connector")) + 1

\* The candidate routes as the claim states them.
NoFilter(tag) == tag \in {"None", "", "all-routes"}
Known(tag) == \E k \in DOMAIN create_demo_routes : create_demo_routes[k].tag = tag

\* C18: the candidate routes of setup_vehicles are the matching route alone
\* when the filter names a known route, the first known route alone when it
\* names none, all known routes without a filter; never empty.  The fleet
\* runs on these routes and, when it is large enough, on all of them.
C18_CandidateRoutes ==
    LET all == create_demo_routes
        routes == candidate_routes(route_tag)
        used == {vehicles[k].route : k \in Fleet}
        candidates == {routes[k] : k \in DOMAIN routes}
    IN  /\ Len(routes) >= 1
        /\ NoFilter(route_tag) => routes = all
        /\ (~NoFilter(route_tag) /\ Known(route_tag))
              => /\ Len(routes) = 1
                 /\ routes[1].tag = route_tag
                 /\ \E k \in DOMAIN all : all[k] = routes[1]
        /\ (~NoFilter(route_tag) /\ ~Known(route_tag)) => routes = <<all[1]>>
        /\ used \subseteq candidates
        /\ num_vehicles >= Len(routes) => used = candidates

\* A fleet set up for an unknown tag runs on the first known route.
C18_Witness ==
    /\ route_tag = "no-such-route"
    /\ num_vehicles >= 2
    /\ \A k \in Fleet : vehicles[k].route.tag = "manhattan-loop"
    /\ Len(vehicles) = num_vehicles

\* ------------------------------------------------- claims, feed loop
\* The fleet of setup_vehicles after n calls of advance_vehicles(dt).
RECURSIVE FleetAfter(_, _, _)
FleetAfter(fleet, dt, n) ==
    IF n = 0
    THEN fleet
    ELSE LET prev == FleetAfter(fleet, dt, n - 1)
         IN  [k \in DOMAIN prev |-> advance(prev[k], dt)]

\* The events of a tick taken at time t from the given fleet.
EventsOf(fleet, t) ==
    [k \in DOMAIN fleet |-> create_event_data_optimized(fleet[k], Agency, t)]

InTick == pc \in {"encode", "submit", "dispatched"}

\* C12: each completed tick is one dispatch followed by one advance of every
\* vehicle by poll_interval, whether or not the tick overran: after n
\* completed ticks the fleet is the initial fleet advanced n times by
\* poll_interval, the events of tick n + 1 report that fleet, and the
\* tick counter and the fleet change only together, at the end of a tick.
C12_OneDispatchOneAdvance ==
    /\ [](pc = "dispatched" =>
            \E seed \in 0..MaxSeed :
                vehicles = FleetAfter(
                               setup_vehicles(route_tag, num_vehicles, seed),
                               poll_interval, batch_count))
    /\ [](pc \in {"submit", "dispatched"}
            => events_to_send = EventsOf(vehicles, time_iso))
    /\ [][/\ batch_count' # batch_count
                => /\ pc = "dispatched"
                   /\ batch_count' = batch_count + 1
                   /\ vehicles' = [k \in DOMAIN vehicles |->
                                      advance(vehicles[k], poll_interval)]
                   /\ last_dt' = {poll_interval}
                   /\ pc' \in {"loop", "sleep"}
          /\ (pc # "idle" /\ vehicles' # vehicles)
                => batch_count' = batch_count + 1
          /\ (pc \in {"loop", "sleep"} /\ pc' # pc)
                => /\ vehicles' = vehicles
                   /\ batch_count' = batch_count
                   /\ pc' \in {"loop", "encode", "stopped"}]_vars

\* The second tick has encoded its events from a fleet that the first tick's
\* advance has moved.
C12_Witness ==
    /\ pc = "submit"
    /\ batch_count = 1
    /\ num_vehicles >= 2
    /\ last_dt = {poll_interval}
    /\ \E seed \in 0..MaxSeed :
          /\ vehicles # setup_vehicles(route_tag, num_vehicles, seed)
          /\ vehicles = FleetAfter(setup_vehicles(route_tag, num_vehicles, seed),
                                   poll_interval, 1)

\* C13: the cumulative events-sent counter of run_feed is accumulated from
\* the tick totals of the dispatch pipeline: it starts at 0 and every
\* completed tick adds that tick's total, failed chunks not counted.
C13_CounterFromTickTotals ==
    [][/\ (pc = "idle" /\ pc' # "idle") => total_events_sent' = 0
       /\ batch_count' # batch_count
             => total_events_sent' = total_events_sent + tick_total
       /\ (pc # "idle" /\ batch_count' = batch_count)
             => total_events_sent' = total_events_sent]_vars

Stopped == pc \in {"stopped", "exited"}
Running == pc \in {"loop", "encode", "submit", "dispatched", "sleep"}
StopRequested == ~running \/ producer = "none"

\* C14: an interrupt that arrives while chunk submissions of the tick are
\* inside the sink does not stop the feed there: the submissions run to
\* completion first, and the feed stops at the next iteration boundary.
C14_InterruptLetsSubmissionsFinish ==
    [][(pc = "submit" /\ \E t \in Chunks : InSink(t)) => pc' # "stopped"]_vars

C16_ExitStatus ==
    pc = "exited"
        => /\ summaries = 1
           /\ producer = "none"
           /\ outcome = "raised" => exit_status # 0
           /\ outcome \in {"cancelled", "interrupted"} => exit_status = 0

\* ------------------------------------------------- claims, encode phase
\* C19: in every tick the encode phase yields one event per vehicle, in
\* fleet order; every event of the tick carries, in its payload timestamp
\* and in its time header, the one timestamp read from the clock when the
\* tick started, which does not change while the tick lasts.
C19_OneEventPerVehicleOneTime ==
    /\ [](pc = "encode" =>
            /\ Len(enc) = Len(vehicles)
            /\ \A k \in DOMAIN enc :
                  enc[k].pc = "done" =>
                     /\ Len(enc[k].event) = 1
                     /\ enc[k].event[1].vehicleId = vehicles[k].id
                     /\ enc[k].event[1].timestamp = time_iso
                     /\ enc[k].event[1].ce_time = time_iso)
    /\ [](pc \in {"submit", "dispatched"} =>
            /\ Len(events_to_send) = Len(vehicles)
            /\ time_iso = clock
            /\ \A k \in Fleet :
                  /\ events_to_send[k].vehicleId = vehicles[k].id
                  /\ events_to_send[k].timestamp = time_iso
                  /\ events_to_send[k].ce_time = time_iso)
    /\ [][/\ (~InTick /\ pc' = "encode")
                => (clock' = clock + 1 /\ time_iso' = clock')
          /\ (InTick /\ pc' \in {"encode", "submit", "dispatched"})
                => (time_iso' = time_iso /\ clock' = clock)]_vars

\* The second tick of a fleet of several vehicles has been encoded, with a
\* later timestamp than the first.
C19_Witness ==
    /\ pc = "submit"
    /\ batch_count = 1
    /\ time_iso = 2
    /\ Len(events_to_send) >= 3
    /\ \A k \in Fleet : events_to_send[k].timestamp = 2

\* ------------------------------------------------- claims, feed command
\* A sink parameter is missing from both the options and the environment.
Missing(opt, env) == opt = "None" /\ env = "unset"

BadConfig(a) ==
    \/ a.vehicles <= 0
    \/ a.poll_interval <= 0
    \/ Missing(a.opt_namespace, a.env_namespace)
    \/ Missing(a.opt_name, a.env_name)

\* C20: whenever the vehicle count or the poll interval is not strictly
\* positive, or the sink namespace or the hub name is missing from both the
\* options and the environment, the feed command exits non-zero and starts
\* nothing: no generator, no open sink, no vehicles.
C20_BadConfigStartsNothing ==
    (/\ Len(cli_args) = 1
     /\ cli_args[1].stage # "parsed"
     /\ BadConfig(cli_args[1]))
        => /\ cli_args[1].stage = "rejected"
           /\ exit_status > 0
           /\ pc = "exited"
           /\ producer = "none"
           /\ vehicles = << >>

\* ------------------------------------------------- claims, no retries
ElementsOf(seq) == {seq[k] : k \in DOMAIN seq}
Sending(t) == task[t].pc \in {"send_full", "send_final"}

\* C21: the pipeline performs no retries.  A failing sink operation ends its
\* submission at once and delivers nothing; a submission that has returned
\* does nothing more; the batch a submission is about to send holds no
\* event it has already delivered, and no event is in two delivered
\* batches; the events handled in a tick are those encoded in that tick,
\* whose timestamp is later than that of every earlier tick.
C21_NoRetries ==
    /\ [](pc \in {"submit", "dispatched"} =>
            \A t \in Chunks :
                /\ Cardinality(BatchesOf(t)) = task[t].sends
                /\ \A b \in BatchesOf(t), c \in BatchesOf(t) :
                      b # c => ElementsOf(b.events) \cap ElementsOf(c.events)
                                  = {}
                /\ Sending(t) =>
                      \A b \in BatchesOf(t) :
                          ElementsOf(b.events)
                             \cap ElementsOf(task[t].event_data_batch) = {})
    /\ [](InTick =>
            /\ time_iso <= clock
            /\ \A k \in DOMAIN events_to_send :
                  events_to_send[k].timestamp = time_iso
            /\ \A t \in DOMAIN event_batches :
                  \A k \in DOMAIN event_batches[t] :
                      event_batches[t][k].timestamp = time_iso
            /\ \A b \in sent :
                  \A k \in DOMAIN b.events : b.events[k].timestamp = time_iso)
    /\ [][/\ (pc = "submit" /\ pc' \in {"submit", "dispatched"}) =>
                \A t \in Chunks :
                    /\ (task'[t].failed /\ ~task[t].failed)
                          => (task'[t].pc = "done" /\ sent' = sent)
                    /\ task[t].pc = "done" => task'[t] = task[t]
          /\ (pc' = "encode" /\ pc # "encode")
                => (clock' > clock /\ time_iso' = clock' /\ sent' = {})]_vars

\* In the second tick a submission has failed on a send after it had
\* delivered a batch, while a sibling is still at work.
C21_Witness ==
    /\ pc = "submit"
    /\ batch_count = 1
    /\ \E t \in Chunks, u \in Chunks :
          /\ task[t].failed
          /\ task[t].sends >= 1
          /\ task[t].i = Len(event_batches[t])
          /\ InSink(u)

\* ------------------------------------------------- claims, batch order
\* The first n events of chunk t.
Prefix(t, n) == SubSeq(event_batches[t], 1, n)

\* C23: within a submission the events go into the sink batches in the
\* order of the chunk.  At every moment the batches delivered so far, in the
\* order of their sends, followed by the batch being filled, are the first
\* i events of the chunk, i being the number of events taken so far.
C23_ChunkOrderKept ==
    pc \in {"submit", "dispatched"} =>
        \A t \in Chunks :
            LET tk == task[t]
                before == Delivered(t, tk.sends)
            IN  /\ tk.pc \in {"wait", "create_batch"}
                      => (tk.i = 0 /\ tk.sends = 0
                          /\ tk.event_data_batch = << >>)
                /\ Sending(t)
                      => before \o tk.event_data_batch = Prefix(t, tk.i)
                /\ tk.pc = "create_next" => before = Prefix(t, tk.i)
                /\ tk.pc = "done"
                      => \/ before = Prefix(t, tk.i)
                         \/ before \o tk.event_data_batch = Prefix(t, tk.i)

\* A submission has delivered a first batch and is sending the next, which
\* holds a later event of its chunk.
C23_Witness ==
    /\ pc = "submit"
    /\ \E t \in Chunks :
          /\ task[t].pc = "send_final"
          /\ task[t].sends >= 1
          /\ task[t].event_data_batch = <<event_batches[t][2]>>
          /\ event_batches[t][1] # event_batches[t][2]

\* --------------------------------------------- claims, batch ownership
\* The events of chunk t.
ChunkEvents(t) == ElementsOf(event_batches[t])

\* The tasks whose record changes in the step.
Stepping == {t \in Chunks : task'[t] # task[t]}

\* C24: a sink batch belongs to one submission task from its opening to its
\* send.  The batch a task holds and the batches it delivered carry events
\* of its own chunk only, the chunks having no event in common; a step adds
\* to or sends the batch of one task only, and it is that task's step; a
\* delivered batch is the batch its owner held when the send was issued.
C24_BatchOwnedByOneTask ==
    /\ [](pc \in {"submit", "dispatched"} =>
            /\ \A t, u \in Chunks :
                  t # u => ChunkEvents(t) \cap ChunkEvents(u) = {}
            /\ \A t \in Chunks :
                  ElementsOf(task[t].event_data_batch) \subseteq ChunkEvents(t)
            /\ \A b \in sent :
                  b.owner \in Chunks
                  /\ ElementsOf(b.events) \subseteq ChunkEvents(b.owner))
    /\ [][(pc = "submit" /\ pc' = "submit") =>
            /\ Cardinality(Stepping) <= 1
            /\ \A b \in sent' \ sent :
                  /\ Stepping = {b.owner}
                  /\ Sending(b.owner)
                  /\ b.events = task[b.owner].event_data_batch]_vars

\* Two submissions hold a batch each at the same time, one of them having
\* delivered a batch already.
C24_Witness ==
    /\ pc = "submit"
    /\ \E t, u \in Chunks :
          /\ t # u
          /\ Sending(t) /\ Sending(u)
          /\ task[t].event_data_batch # << >>
          /\ task[u].event_data_batch # << >>
          /\ BatchesOf(t) # {}

\* ------------------------------------------------ claims, partitioning
\* The chunks joined in their order.
RECURSIVE Concatenation(_)
Concatenation(chunks) ==
    IF chunks = << >>
    THEN << >>
    ELSE Concatenation(SubSeq(chunks, 1, Len(chunks) - 1))
             \o chunks[Len(chunks)]

\* C25: the K encoded events of a tick are cut into ceil(K / batch_size)
\* chunks, each of batch_size events but the last, which has between one and
\* batch_size; joined in order the chunks are the list of events; with no
\* event there is no chunk, no submission task and nothing reaches the sink.
C25_PartitionIsConsecutiveSlices ==
    LET K == Len(events_to_send)
        count == Len(event_batches)
    IN  /\ pc = "submit" => K > 0
        /\ (pc \in {"submit", "dispatched"} /\ K > 0) =>
              /\ count * batch_size >= K
              /\ (count - 1) * batch_size < K
              /\ \A t \in 1..(count - 1) : Len(event_batches[t]) = batch_size
              /\ Len(event_batches[count]) \in 1..batch_size
              /\ Concatenation(event_batches) = events_to_send
              /\ DOMAIN task = DOMAIN event_batches
        /\ (pc = "dispatched" /\ K = 0) =>
              /\ event_batches = << >>
              /\ task = << >>
              /\ sent = {}
              /\ tick_total = 0

\* The events are cut into two whole chunks and a shorter last one.
C25_Witness ==
    /\ pc = "submit"
    /\ Len(events_to_send) > 2 * batch_size
    /\ Len(event_batches) = 3
    /\ Len(event_batches[3]) = Len(events_to_send) - 2 * batch_size
    /\ Len(event_batches[3]) < batch_size

\* ----------------------------------------------- claims, reported count
\* The events of chunk t in batches whose send succeeded.
DeliveredCount(t) == Len(Delivered(t, task[t].sends))

\* C26: the count a returned submission reports is the number of events of
\* its chunk in the batches whose send succeeded; a submission that reports
\* 0 has delivered no batch.
C26_ReportIsDeliveredCount ==
    pc \in {"submit", "dispatched"} =>
        \A t \in Chunks :
            Returned(t) =>
                /\ task[t].result = DeliveredCount(t)
                /\ task[t].result = 0 => BatchesOf(t) = {}

\* --------------------------------------------- claims, distance moved
\* The length of segment j of the route of v, in km.
SegmentLength(v, j) == get_distance_between_points(WP(v, j), WP(v, j + 1))

\* The length of the segments from..to of the route of v, in km.
RECURSIVE SegmentsLength(_, _, _)
SegmentsLength(v, from, to) ==
    IF from > to
    THEN 0
    ELSE SegmentLength(v, from) + SegmentsLength(v, from + 1, to)

\* The distance along the route from the place of v to the place of w, which
\* is on a later segment of the same route, in 1/ProgressScale km.
DistanceAlong(v, w) ==
    (ProgressScale - v.progress_to_next_waypoint)
        * SegmentLength(v, v.current_waypoint_index)
    + ProgressScale * SegmentsLength(v, v.current_waypoint_index + 1,
                                     w.current_waypoint_index - 1)
    + w.progress_to_next_waypoint * SegmentLength(v, w.current_waypoint_index)

\* C27: an advance that ends on a later segment, short of the last index,
\* moves the vehicle along the route by speed_km_hr / 3600 *
\* time_step_seconds: the rest of the old segment, the whole segments
\* crossed and the progress on the new segment add up to that distance.
\* Stated for segments that all have a length, of equal or different sizes.
C27_DistanceMoved ==
    [][\A k \in Fleet :
          LET v == vehicles[k]
              w == vehicles'[k]
          IN  (/\ Len(v.route.waypoints) >= 1
               /\ v.current_waypoint_index < LastIndex(v)
               /\ last_dt' # {}
               /\ w.current_waypoint_index > v.current_waypoint_index
               /\ \A j \in v.current_waypoint_index
                              ..w.current_waypoint_index :
                     NonZeroSegment(v, j))
                  => \E dt \in last_dt' :
                        DistanceAlong(v, w) * 3600
                            = v.speed_km_hr * dt * ProgressScale]_vars

====
